---- MODULE Spec2Model ----
(***************************************************************************)
(* Model of the in-memory service queue of src/main.py (API Fila de        *)
(* Atendimento).  The store `fila` is a Python list of Cliente objects;    *)
(* every HTTP handler runs to completion and is one action.                *)
(***************************************************************************)
EXTENDS Integers, Sequences, FiniteSets, TLC

\* ---- bounds of the model ------------------------------------------------
MaxChegadas == 3        \* number of POST /fila requests explored
MaxRelogio == 1         \* number of clock ticks explored
MaxAvancosExtra == 1    \* advances explored after a drain has emptied the queue

\* ---- program constants --------------------------------------------------
Placeholder == 999999   \* posicao given to a Cliente at construction
Servido == 0            \* posicao written by put_fila when serving

Tipos == {"N", "P"}
\* nome is carried along and compared, never inspected: one valid name
Nomes == {"Ana"}
\* path parameters tried by GET/DELETE /fila/{id}
Ids == (-1 .. MaxChegadas + 1) \cup {Placeholder}

VARIABLES
    fila,       \* the global list of Cliente
    relogio,    \* the wall clock read by agora_utc
    proxId,     \* identity of the next Cliente object constructed
    antes,      \* the list as it was when the last request started
    op,         \* the last completed request and its response
    hist,       \* what the requests so far have done (serves, removals)
    dreno,      \* the drain under observation: its starting store, its advances
    pedidos,    \* the requests in progress, one per worker thread
    sobreposto  \* whether requests have run at the same time

vars == <<fila, relogio, proxId, antes, op, hist, dreno, pedidos, sobreposto>>

\* worker threads that serve requests at the same time
Threads == {"t1", "t2"}

\* ---- Cliente ------------------------------------------------------------
\* `id` is the identity of the Python object (it is not a pydantic field).
Cliente(i, p, n, c, t, a) ==
    [id |-> i, posicao |-> p, nome |-> n, chegada |-> c, tipo |-> t, atendido |-> a]

\* pydantic BaseModel.__eq__ : equality of the declared fields
IgualSemPosicao(a, b) ==
    /\ a.nome = b.nome
    /\ a.chegada = b.chegada
    /\ a.tipo = b.tipo
    /\ a.atendido = b.atendido
Igual(a, b) ==
    /\ a.posicao = b.posicao
    /\ a.nome = b.nome
    /\ a.chegada = b.chegada
    /\ a.tipo = b.tipo
    /\ a.atendido = b.atendido

\* ---- ordenar_recalcular_posicoes ---------------------------------------
NaoAtendidos(f) == SelectSeq(f, LAMBDA c : ~c.atendido)
Atendidos(f) == SelectSeq(f, LAMBDA c : c.atendido)

\* the response body of get_fila and put_fila
ListarTudo(f) == f
Listar(f) == SelectSeq(f, LAMBDA c : ~c.atendido)

ChaveInvertida(c) == IF c.tipo = "P" THEN 1 ELSE 0
Chave(c) == IF c.tipo = "P" THEN 0 ELSE 1

\* list.sort(key=...) is a stable sort: insertion after the last element
\* whose key is not greater.
RECURSIVE InserirInstavel(_, _)
InserirInstavel(s, c) ==
    IF s = <<>> THEN <<c>>
    ELSE IF Chave(c) <= Chave(Head(s)) THEN <<c>> \o s
         ELSE <<Head(s)>> \o InserirInstavel(Tail(s), c)

RECURSIVE Inserir(_, _)
Inserir(s, c) ==
    IF s = <<>> THEN <<c>>
    ELSE IF Chave(c) < Chave(Head(s)) THEN <<c>> \o s
         ELSE <<Head(s)>> \o Inserir(Tail(s), c)

RECURSIVE OrdenarAte(_, _)
OrdenarAte(s, n) ==
    IF n = 0 THEN <<>> ELSE Inserir(OrdenarAte(s, n - 1), s[n])

Ordenar(s) == OrdenarAte(s, Len(s))

RenumerarDeZero(s) == [i \in 1..Len(s) |-> [s[i] EXCEPT !.posicao = i - 1]]
Renumerar(s) == [i \in 1..Len(s) |-> [s[i] EXCEPT !.posicao = i]]

ordenar_sem_separar(f) ==
    Renumerar(Ordenar(f))
ordenar_atendidos_primeiro(f) ==
    Atendidos(f) \o Renumerar(Ordenar(NaoAtendidos(f)))
ordenar_descartando(f) ==
    Renumerar(Ordenar(NaoAtendidos(f)))
ordenar_recalcular_posicoes(f) ==
    Renumerar(Ordenar(NaoAtendidos(f))) \o Atendidos(f)

\* ---- encontrar_por_posicao ---------------------------------------------
\* index of the first element with that posicao, 0 for None
encontrar_por_posicao(f, posicao) ==
    IF \E i \in 1..Len(f) : f[i].posicao = posicao
    THEN CHOOSE i \in 1..Len(f) :
            /\ f[i].posicao = posicao
            /\ \A j \in 1..(i - 1) : f[j].posicao # posicao
    ELSE 0

\* the 404 test of get_fila_id and delete_fila_id
SemVerificarAtendido(f, i) == i = 0
NaoExiste(f, i) == i = 0 \/ f[i].atendido

\* list.remove(x): drops the first element equal to x
RemoverMarcando(f, x) ==
    LET k == CHOOSE i \in 1..Len(f) :
                 Igual(f[i], x) /\ \A j \in 1..(i - 1) : ~Igual(f[j], x)
    IN  [f EXCEPT ![k].posicao = Servido, ![k].atendido = TRUE]
Remover(f, x) ==
    LET k == CHOOSE i \in 1..Len(f) :
                 Igual(f[i], x) /\ \A j \in 1..(i - 1) : ~Igual(f[j], x)
    IN  SubSeq(f, 1, k - 1) \o SubSeq(f, k + 1, Len(f))

\* ---- the list each handler leaves behind --------------------------------
\* post_fila: append, then recompute
InseridoSemRecalcular(f, cliente) == Append(f, cliente)
Inserido(f, cliente) == ordenar_recalcular_posicoes(Append(f, cliente))

\* put_fila: recompute, serve the Cliente at posicao 1 in place, recompute
AvancadoSemRecalcular(f) ==
    LET f1 == ordenar_recalcular_posicoes(f)
        i == encontrar_por_posicao(f1, 1)
    IN  IF i # 0
        THEN [f1 EXCEPT ![i].posicao = Servido, ![i].atendido = TRUE]
        ELSE f1
AvancadoSemAtendido(f) ==
    LET f1 == ordenar_recalcular_posicoes(f)
        i == encontrar_por_posicao(f1, 1)
        f2 == IF i # 0 THEN [f1 EXCEPT ![i].posicao = Servido] ELSE f1
    IN  ordenar_recalcular_posicoes(f2)
Avancado(f) ==
    LET f1 == ordenar_recalcular_posicoes(f)
        i == encontrar_por_posicao(f1, 1)
        f2 == IF i # 0
              THEN [f1 EXCEPT ![i].posicao = Servido, ![i].atendido = TRUE]
              ELSE f1
    IN  ordenar_recalcular_posicoes(f2)

\* delete_fila_id past the 404 test: remove the Cliente found, recompute
RemovidoSemRecalcular(f1, i) == Remover(f1, f1[i])
Removido(f1, i) == ordenar_recalcular_posicoes(Remover(f1, f1[i]))

\* ---- state --------------------------------------------------------------
Resposta(nome, arg, status, corpo) ==
    [nome |-> nome, arg |-> arg, status |-> status, corpo |-> corpo]

\* ids that g holds served and f did not, in the order of g
NovosServidos(f, g) ==
    LET ja == {f[i].id : i \in {j \in 1..Len(f) : f[j].atendido}}
        novos == SelectSeq(g, LAMBDA c : c.atendido /\ c.id \notin ja)
    IN  [i \in 1..Len(novos) |-> novos[i].id]

Ocioso == [pc |-> "ocioso", cliente |-> <<>>, nao |-> <<>>, at |-> <<>>,
           resposta |-> 0, coerente |-> TRUE]

Init ==
    /\ fila = <<>>
    /\ relogio = 0
    /\ proxId = 1
    /\ antes = <<>>
    /\ op = Resposta("inicio", 0, 0, <<>>)
    /\ hist = [servidos |-> <<>>, removidos |-> 0, avancos |-> 0]
    /\ dreno = [ativo |-> FALSE, inicio |-> <<>>, n |-> 0]
    /\ pedidos = [t \in Threads |-> Ocioso]
    /\ sobreposto = FALSE

\* time passes between requests (agora_utc reads the clock)
Tique ==
    /\ relogio < MaxRelogio
    /\ relogio' = relogio + 1
    /\ UNCHANGED <<fila, proxId, antes, op, hist, dreno, pedidos, sobreposto>>

\* GET /fila
get_fila ==
    LET f1 == ordenar_recalcular_posicoes(fila)
    IN  /\ fila' = f1
        /\ antes' = fila
        /\ op' = Resposta("get_fila", 0, 200, Listar(f1))
        /\ UNCHANGED <<relogio, proxId, hist, dreno, pedidos, sobreposto>>

\* GET /fila/{id}
get_fila_id ==
    \E id \in Ids :
        LET f1 == ordenar_recalcular_posicoes(fila)
            i == encontrar_por_posicao(f1, id)
        IN  /\ fila' = f1
            /\ antes' = fila
            /\ op' = IF NaoExiste(f1, i)
                     THEN Resposta("get_fila_id", id, 404, <<>>)
                     ELSE Resposta("get_fila_id", id, 200, <<f1[i]>>)
            /\ UNCHANGED <<relogio, proxId, hist, dreno, pedidos, sobreposto>>

\* POST /fila
post_fila ==
    \E n \in Nomes, t \in Tipos :
        LET cliente == Cliente(proxId, Placeholder, n, relogio, t, FALSE)
            f2 == Inserido(fila, cliente)
            k == CHOOSE i \in 1..Len(f2) : f2[i].id = proxId
        IN  /\ proxId <= MaxChegadas
            /\ fila' = f2
            /\ proxId' = proxId + 1
            /\ antes' = fila
            /\ op' = Resposta("post_fila", 0, 201, <<f2[k]>>)
            /\ UNCHANGED <<relogio, hist, dreno, pedidos, sobreposto>>

\* PUT /fila
put_fila ==
    LET f3 == Avancado(fila)
    IN  /\ fila' = f3
        /\ antes' = fila
        /\ op' = Resposta("put_fila", 0, 200, Listar(f3))
        /\ hist' = [hist EXCEPT
                        !.servidos = @ \o NovosServidos(fila, f3),
                        !.avancos = @ + (IF NaoAtendidos(fila) # <<>> THEN 1 ELSE 0)]
        /\ dreno' = IF dreno.ativo THEN [dreno EXCEPT !.n = @ + 1] ELSE dreno
        /\ UNCHANGED <<relogio, proxId, pedidos, sobreposto>>

\* DELETE /fila/{id}
delete_fila_id ==
    \E id \in Ids :
        LET f1 == ordenar_recalcular_posicoes(fila)
            i == encontrar_por_posicao(f1, id)
        IN  /\ antes' = fila
            /\ IF NaoExiste(f1, i)
               THEN /\ fila' = f1
                    /\ op' = Resposta("delete_fila_id", id, 404, <<>>)
                    /\ hist' = hist
               ELSE /\ fila' = Removido(f1, i)
                    /\ op' = Resposta("delete_fila_id", id, 204, <<>>)
                    /\ hist' = [hist EXCEPT !.removidos = @ + 1]
            /\ UNCHANGED <<relogio, proxId, dreno, pedidos, sobreposto>>

Next ==
    \/ Tique
    \/ get_fila
    \/ get_fila_id
    \/ post_fila
    \/ put_fila
    \/ delete_fila_id

Spec == Init /\ [][Next]_vars

\* ---- a drain: from some point on, clients only advance and read --------
\* the requests that build the store the drain starts from
Carga == ~dreno.ativo /\ (Tique \/ post_fila \/ put_fila \/ delete_fila_id)

IniciarDreno ==
    /\ ~dreno.ativo
    /\ dreno' = [ativo |-> TRUE, inicio |-> fila, n |-> 0]
    /\ UNCHANGED <<fila, relogio, proxId, antes, op, hist, pedidos, sobreposto>>

AvancarDreno ==
    /\ dreno.ativo
    /\ dreno.n < Len(NaoAtendidos(dreno.inicio)) + MaxAvancosExtra
    /\ put_fila

LerDreno == dreno.ativo /\ get_fila

NextDreno ==
    \/ Carga
    \/ IniciarDreno
    \/ AvancarDreno
    \/ LerDreno

\* the steps that count an advance of the drain are the AvancarDreno steps,
\* and PUT /fila can always be called: this is AvancarDreno seen on dreno
ContarAvanco ==
    /\ dreno.ativo
    /\ dreno.n < Len(NaoAtendidos(dreno.inicio)) + MaxAvancosExtra
    /\ dreno' = [dreno EXCEPT !.n = @ + 1]

\* clients keep calling PUT /fila
SpecDreno == Init /\ [][NextDreno]_vars /\ WF_dreno(ContarAvanco)

\* ---- two POST /fila requests on worker threads, statement by statement -
\* The lists hold references: an assignment to c.posicao shows in every
\* list that holds c.  pos maps the ids written to their new posicao.
Escrever(f, pos) ==
    [i \in 1..Len(f) |->
        IF f[i].id \in DOMAIN pos THEN [f[i] EXCEPT !.posicao = pos[f[i].id]]
        ELSE f[i]]

\* the assignments of `for i, c in enumerate(nao_atendidos, start=1)`: an
\* object the list holds twice keeps the last value
Atribuicoes(s) ==
    LET r == Renumerar(s)
        ultimo(i) == CHOOSE k \in 1..Len(r) :
                         r[k].id = i /\ \A j \in (k + 1)..Len(r) : r[j].id # i
    IN  [i \in {r[k].id : k \in 1..Len(r)} |-> r[ultimo(i)].posicao]

Outros(t) == \E u \in Threads \ {t} : pedidos[u].pc # "ocioso"

Passo(t, novo) ==
    /\ pedidos' = [pedidos EXCEPT ![t] = novo]
    /\ sobreposto' = (sobreposto \/ Outros(t))

\* the place an entry really has among the unserved entries of the store
Lugares(f, i) == {k \in 1..Len(NaoAtendidos(f)) : NaoAtendidos(f)[k].id = i}

\* post_fila, lines 90-97: construct the Cliente and append it
c_append(t) ==
    \E n \in Nomes, tp \in Tipos :
        LET cliente == Cliente(proxId, Placeholder, n, relogio, tp, FALSE)
        IN  /\ pedidos[t].pc = "ocioso"
            /\ proxId <= MaxChegadas
            /\ fila' = Append(fila, cliente)
            /\ proxId' = proxId + 1
            /\ Passo(t, [pedidos[t] EXCEPT !.pc = "ler_nao", !.cliente = cliente])
            /\ UNCHANGED <<relogio, antes, op, hist, dreno>>

\* ordenar_recalcular_posicoes, line 41
c_ler_nao(t) ==
    /\ pedidos[t].pc = "ler_nao"
    /\ Passo(t, [pedidos[t] EXCEPT !.pc = "ler_at", !.nao = NaoAtendidos(fila)])
    /\ UNCHANGED <<fila, relogio, proxId, antes, op, hist, dreno>>

\* ordenar_recalcular_posicoes, line 42
c_ler_at(t) ==
    /\ pedidos[t].pc = "ler_at"
    /\ Passo(t, [pedidos[t] EXCEPT !.pc = "ordenar", !.at = Atendidos(fila)])
    /\ UNCHANGED <<fila, relogio, proxId, antes, op, hist, dreno>>

\* ordenar_recalcular_posicoes, lines 44-46: sort the local list, then
\* write the positions into the shared objects
c_ordenar(t) ==
    LET ordenada == Ordenar(pedidos[t].nao)
        pos == Atribuicoes(ordenada)
    IN  /\ pedidos[t].pc = "ordenar"
        /\ fila' = Escrever(fila, pos)
        /\ pedidos' =
              [u \in Threads |->
                  LET p == pedidos[u]
                  IN  [pc |-> IF u = t THEN "clear" ELSE p.pc,
                       cliente |-> IF p.cliente = <<>> THEN <<>>
                                   ELSE Escrever(<<p.cliente>>, pos)[1],
                       nao |-> Escrever(IF u = t THEN ordenada ELSE p.nao, pos),
                       at |-> Escrever(p.at, pos),
                       resposta |-> p.resposta,
                       coerente |-> p.coerente]]
        /\ sobreposto' = (sobreposto \/ Outros(t))
        /\ UNCHANGED <<relogio, proxId, antes, op, hist, dreno>>

\* ordenar_recalcular_posicoes, line 48
c_clear(t) ==
    /\ pedidos[t].pc = "clear"
    /\ fila' = <<>>
    /\ Passo(t, [pedidos[t] EXCEPT !.pc = "extend"])
    /\ UNCHANGED <<relogio, proxId, antes, op, hist, dreno>>

\* ordenar_recalcular_posicoes, line 49
c_extend(t) ==
    /\ pedidos[t].pc = "extend"
    /\ fila' = fila \o (pedidos[t].nao \o pedidos[t].at)
    /\ Passo(t, [pedidos[t] EXCEPT !.pc = "retornar"])
    /\ UNCHANGED <<relogio, proxId, antes, op, hist, dreno>>

\* post_fila, line 99: the response is the Cliente as it is now; it is
\* coherent when the store holds the entry once, at the place it reports
c_retornar(t) ==
    LET c == pedidos[t].cliente
    IN  /\ pedidos[t].pc = "retornar"
        /\ Passo(t, [Ocioso EXCEPT
                     !.resposta = c.posicao,
                     !.coerente =
                        /\ pedidos[t].coerente
                        /\ Cardinality({k \in 1..Len(fila) : fila[k].id = c.id}) = 1
                        /\ Lugares(fila, c.id) = {c.posicao}])
        /\ UNCHANGED <<fila, relogio, proxId, antes, op, hist, dreno>>

NextConc ==
    \E t \in Threads :
        \/ c_append(t)
        \/ c_ler_nao(t)
        \/ c_ler_at(t)
        \/ c_ordenar(t)
        \/ c_clear(t)
        \/ c_extend(t)
        \/ c_retornar(t)

SpecConc == Init /\ [][NextConc]_vars

\* ---- vocabulary of the properties --------------------------------------
K(f) == Len(NaoAtendidos(f))
IdsDe(f) == {f[i].id : i \in 1..Len(f)}
Entrada(f, i) == CHOOSE c \in {f[j] : j \in 1..Len(f)} : c.id = i
IdsNaoAtendidos(f) == IdsDe(NaoAtendidos(f))
\* the store a request works on after its first recompute
Base == ordenar_recalcular_posicoes(antes)

\* positions held by the unserved entries of a list
Posicoes(f) == {NaoAtendidos(f)[i].posicao : i \in 1..K(f)}
NumPrioritarios(f) == Len(SelectSeq(f, LAMBDA c : ~c.atendido /\ c.tipo = "P"))

\* ---- C1 -----------------------------------------------------------------
\* C1: after every completed request the positions of the unserved entries
\* are exactly 1..K (K = number of unserved entries), pairwise distinct,
\* and none is the creation placeholder 999999.
C1_PosicoesContiguas ==
    LET u == NaoAtendidos(fila)
    IN  /\ Posicoes(fila) = 1..Len(u)
        /\ \A i, j \in 1..Len(u) : i # j => u[i].posicao # u[j].posicao
        /\ \A i \in 1..Len(u) : u[i].posicao # Placeholder

\* a deletion from the middle of a queue that also holds a served entry
C1_Witness ==
    /\ op.nome = "delete_fila_id"
    /\ op.status = 204
    /\ op.arg = 1
    /\ K(fila) >= 1
    /\ Len(Atendidos(fila)) >= 1

\* ---- C2 -----------------------------------------------------------------
\* C2: among the unserved entries every Priority ('P') entry has a position
\* strictly smaller than every Normal ('N') entry.
C2_PrioridadeAntes ==
    LET u == NaoAtendidos(fila)
    IN  \A i, j \in 1..Len(u) :
            (u[i].tipo = "P" /\ u[j].tipo = "N") => u[i].posicao < u[j].posicao

\* a Priority entry enqueued after a Normal one, both still waiting
C2_Witness ==
    LET u == NaoAtendidos(fila)
    IN  \E i, j \in 1..Len(u) :
            /\ u[i].tipo = "P"
            /\ u[j].tipo = "N"
            /\ u[j].id < u[i].id

\* ---- C3 -----------------------------------------------------------------
\* C3: of two unserved entries of the same service type, the one enqueued
\* earlier has the smaller position, also after advances and deletions.
C3_OrdemDeChegada ==
    LET u == NaoAtendidos(fila)
    IN  \A i, j \in 1..Len(u) :
            (u[i].tipo = u[j].tipo /\ u[i].id < u[j].id)
                => u[i].posicao < u[j].posicao

\* two Priority entries waiting behind a served one
C3_Witness ==
    LET u == NaoAtendidos(fila)
    IN  /\ Len(Atendidos(fila)) >= 1
        /\ \E i, j \in 1..Len(u) :
               i # j /\ u[i].tipo = "P" /\ u[j].tipo = "P"

\* ---- C4 -----------------------------------------------------------------
\* C4: enqueue returns the created entry with the position it has in the
\* store, never 999999: K+1 for a Normal entry (K = unserved entries before
\* the call), P+1 for a Priority entry (P = unserved Priority entries before
\* the call); in the Priority case each waiting Normal entry moves back by
\* one and each waiting Priority entry keeps its position.
C4_PosicaoDoNovo ==
    op.nome = "post_fila" =>
        LET e == op.corpo[1]
            u == NaoAtendidos(antes)
        IN  /\ e.posicao # Placeholder
            /\ \E i \in 1..Len(fila) : fila[i] = e
            /\ e.tipo = "N" => e.posicao = K(antes) + 1
            /\ e.tipo = "P" =>
                  /\ e.posicao = NumPrioritarios(antes) + 1
                  /\ \A i \in 1..Len(u) :
                        /\ u[i].id \in IdsNaoAtendidos(fila)
                        /\ Entrada(fila, u[i].id).posicao =
                              IF u[i].tipo = "N" THEN u[i].posicao + 1
                                                 ELSE u[i].posicao

\* a Priority entry enqueued behind a waiting Priority and a waiting Normal
C4_Witness ==
    /\ op.nome = "post_fila"
    /\ op.corpo[1].tipo = "P"
    /\ op.corpo[1].posicao = 2
    /\ K(antes) = 2
    /\ NumPrioritarios(antes) = 1

\* ---- C5 -----------------------------------------------------------------
\* C5: advance on a store with K >= 1 unserved entries marks exactly one
\* entry served, the one that held position 1, and returns the other K-1
\* unserved entries in the same relative order, each position lowered by one.
C5_AvancaCabeca ==
    (op.nome = "put_fila" /\ K(antes) >= 1) =>
        LET u == NaoAtendidos(antes)
            h == CHOOSE c \in {u[i] : i \in 1..Len(u)} : c.posicao = 1
        IN  /\ IdsDe(Atendidos(fila)) = IdsDe(Atendidos(antes)) \cup {h.id}
            /\ h.id \notin IdsDe(Atendidos(antes))
            /\ Len(op.corpo) = K(antes) - 1
            /\ \A i \in 1..Len(op.corpo) :
                  op.corpo[i] = [u[i + 1] EXCEPT !.posicao = u[i + 1].posicao - 1]

\* an advance over a queue of three, leaving two
C5_Witness ==
    /\ op.nome = "put_fila"
    /\ K(antes) >= 2
    /\ Len(op.corpo) = K(antes) - 1
    /\ \E i \in 1..Len(op.corpo) : op.corpo[i].tipo = "N"

\* the unserved entry of f that holds position p
NaPosicao(f, p) ==
    CHOOSE c \in {NaoAtendidos(f)[i] : i \in 1..K(f)} : c.posicao = p

\* ---- C6 -----------------------------------------------------------------
\* C6: advance on a store without unserved entries (empty, or holding only
\* served entries) leaves the store as it was and returns the empty list.
C6_AvancaVazia ==
    (op.nome = "put_fila" /\ K(antes) = 0) =>
        /\ fila = antes
        /\ op.corpo = <<>>

\* an advance over a store that holds two served entries and nothing else
C6_Witness ==
    /\ op.nome = "put_fila"
    /\ K(antes) = 0
    /\ Len(antes) >= 2

\* ---- C7 -----------------------------------------------------------------
\* C7: removeByPosition(p) with 1 <= p <= K removes exactly one entry, the
\* unserved entry that held position p; every other entry stays, unserved
\* entries below p keep their position, those above p move up by one.
C7_RemoveUm ==
    (op.nome = "delete_fila_id" /\ op.arg \in 1..K(antes)) =>
        LET u == NaoAtendidos(antes)
            x == NaPosicao(antes, op.arg)
        IN  /\ op.status = 204
            /\ Len(fila) = Len(antes) - 1
            /\ IdsDe(fila) = IdsDe(antes) \ {x.id}
            /\ Atendidos(fila) = Atendidos(antes)
            /\ \A i \in 1..Len(u) :
                  u[i].id # x.id =>
                      /\ u[i].id \in IdsNaoAtendidos(fila)
                      /\ Entrada(fila, u[i].id) =
                            [u[i] EXCEPT !.posicao =
                                IF u[i].posicao < op.arg THEN u[i].posicao
                                                         ELSE u[i].posicao - 1]

\* the middle one of three waiting entries is removed
C7_Witness ==
    /\ op.nome = "delete_fila_id"
    /\ op.arg = 2
    /\ K(antes) = 3
    /\ K(fila) = 2

\* ---- C8 -----------------------------------------------------------------
\* C8: for every p outside 1..K, get-by-position(p) and removeByPosition(p)
\* answer NotFound and leave the store equal to the recomputed store the
\* call started from.
C8_ForaDaFaixa ==
    (op.nome \in {"get_fila_id", "delete_fila_id"} /\ op.arg \notin 1..K(antes)) =>
        /\ op.status = 404
        /\ fila = Base

\* position 0 asked for while a served entry carries it and another waits
C8_Witness ==
    /\ op.nome = "delete_fila_id"
    /\ op.arg = 0
    /\ op.status = 404
    /\ Len(Atendidos(antes)) >= 1
    /\ K(antes) >= 1

\* ---- C9 -----------------------------------------------------------------
\* C9 as stated: once advance has served an entry (it held position 1),
\* removeByPosition(1) answers NotFound whatever else the store holds.
C9_Original ==
    (op.nome = "delete_fila_id" /\ op.arg = 1 /\ Len(Atendidos(antes)) >= 1) =>
        op.status = 404

\* C9: once advance has served an entry (it held position 1),
\* removeByPosition(1) never removes a served entry: it answers NotFound
\* exactly when no unserved entry is left, and otherwise removes the unserved
\* entry that holds position 1 now.
C9_PosicaoAntiga ==
    (op.nome = "delete_fila_id" /\ op.arg = 1 /\ Len(Atendidos(antes)) >= 1) =>
        /\ op.status = 404 <=> K(antes) = 0
        /\ Atendidos(fila) = Atendidos(antes)
        /\ K(antes) >= 1 =>
              /\ op.status = 204
              /\ IdsDe(antes) \ IdsDe(fila) = {NaPosicao(antes, 1).id}

\* position 1 deleted when the only entries left are served ones
C9_Witness ==
    /\ op.nome = "delete_fila_id"
    /\ op.arg = 1
    /\ op.status = 404
    /\ Len(Atendidos(antes)) >= 1
    /\ K(antes) = 0

\* ---- C10 ----------------------------------------------------------------
\* C10: no lookup reaches a served entry: get-by-position never returns one
\* and removeByPosition never removes one, for any p (0 included, also when
\* several served entries carry it); for p in 1..K the lookup resolves to
\* the one unserved entry that holds p.
C10_AtendidosInvisiveis ==
    /\ (op.nome = "get_fila_id" /\ op.status = 200) =>
          /\ ~op.corpo[1].atendido
          /\ op.corpo[1].id \in IdsNaoAtendidos(antes)
    /\ op.nome = "delete_fila_id" =>
          /\ IdsDe(Atendidos(antes)) \subseteq IdsDe(fila)
          /\ Atendidos(fila) = Atendidos(antes)
    /\ (op.nome = "get_fila_id" /\ op.arg \in 1..K(antes)) =>
          /\ op.status = 200
          /\ op.corpo = <<NaPosicao(antes, op.arg)>>
    /\ (op.nome = "delete_fila_id" /\ op.arg \in 1..K(antes)) =>
          /\ op.status = 204
          /\ IdsDe(antes) \ IdsDe(fila) = {NaPosicao(antes, op.arg).id}

\* position 0 looked up while two served entries carry it and one waits
C10_Witness ==
    /\ op.nome = "get_fila_id"
    /\ op.arg = 0
    /\ Len(Atendidos(antes)) >= 2
    /\ K(antes) >= 1

\* ---- C11 ----------------------------------------------------------------
\* the stores recompute is called on: the store between requests, and the
\* store inside a request after its append, its in-place serve or its remove
Marcado(f) ==
    LET i == encontrar_por_posicao(f, 1)
    IN  IF i # 0
        THEN [f EXCEPT ![i].posicao = Servido, ![i].atendido = TRUE]
        ELSE f
Intermediarios(f) ==
    {f, Marcado(f)}
        \cup {Append(f, Cliente(proxId, Placeholder, n, relogio, t, FALSE)) :
                  n \in Nomes, t \in Tipos}
        \cup {Remover(f, f[i]) : i \in 1..K(f)}

\* C11: recompute is idempotent: on every store it is called on, a second
\* run straight after the first leaves order, positions and served flags
\* as the first run left them.
C11_Idempotente ==
    \A s \in Intermediarios(fila) :
        ordenar_recalcular_posicoes(ordenar_recalcular_posicoes(s))
            = ordenar_recalcular_posicoes(s)

\* a store the first run really changes: two waiting, one served, a
\* Priority entry just appended behind them
C11_Witness ==
    /\ K(fila) >= 2
    /\ Len(Atendidos(fila)) >= 1
    /\ \E s \in Intermediarios(fila) :
           /\ Len(s) > Len(fila)
           /\ ordenar_recalcular_posicoes(s) # s
           /\ s[Len(s)].tipo = "P"

\* ---- C12 ----------------------------------------------------------------
\* C12: listing returns exactly the unserved entries, in increasing position
\* order 1..K, each with served = false; listing and a successful
\* get-by-position leave the store as the previous request left it.
C12_ListaSomenteLeitura ==
    /\ op.nome = "get_fila" =>
          /\ op.corpo = NaoAtendidos(antes)
          /\ IdsDe(op.corpo) = IdsNaoAtendidos(fila)
          /\ \A i \in 1..Len(op.corpo) :
                op.corpo[i].posicao = i /\ ~op.corpo[i].atendido
          /\ fila = antes
    /\ (op.nome = "get_fila_id" /\ op.status = 200) => fila = antes

\* a listing of two waiting entries while a served one is in the store
C12_Witness ==
    /\ op.nome = "get_fila"
    /\ Len(op.corpo) = 2
    /\ Len(Atendidos(fila)) >= 1

\* ---- C13 ----------------------------------------------------------------
SetAtendidos(f) == IdsDe(Atendidos(f))

\* C13: an entry is created unserved; its served flag only ever goes from
\* false to true, only in an advance that found the entry at position 1; a
\* served entry is never reset, and an advance over waiting entries marks
\* one of them, never a served entry again.
C13_ServidoUmaVez ==
    /\ \A i \in IdsDe(fila) \ IdsDe(antes) :
          ~Entrada(fila, i).atendido /\ op.nome = "post_fila"
    /\ \A i \in IdsDe(fila) \cap IdsDe(antes) :
          /\ Entrada(antes, i).atendido => Entrada(fila, i).atendido
          /\ (~Entrada(antes, i).atendido /\ Entrada(fila, i).atendido) =>
                /\ op.nome = "put_fila"
                /\ Entrada(antes, i).posicao = 1
    /\ op.nome = "put_fila" =>
          Cardinality(SetAtendidos(fila)) =
              Cardinality(SetAtendidos(antes)) + (IF K(antes) >= 1 THEN 1 ELSE 0)

\* a second advance: one entry already served, another one served now
C13_Witness ==
    /\ op.nome = "put_fila"
    /\ Cardinality(SetAtendidos(antes)) = 1
    /\ Cardinality(SetAtendidos(fila)) = 2

\* ---- C14 ----------------------------------------------------------------
Minimo(S) == CHOOSE m \in S : \A x \in S : m <= x
IdsPrioritarios(f) ==
    {NaoAtendidos(f)[i].id : i \in {j \in 1..K(f) : NaoAtendidos(f)[j].tipo = "P"}}

\* C14: an advance over a non-empty queue serves the earliest-enqueued
\* unserved Priority entry if there is one, else the earliest-enqueued
\* unserved Normal entry.
C14_OrdemDeServico ==
    (op.nome = "put_fila" /\ K(antes) >= 1) =>
        SetAtendidos(fila) \ SetAtendidos(antes) =
            {IF IdsPrioritarios(antes) # {}
             THEN Minimo(IdsPrioritarios(antes))
             ELSE Minimo(IdsNaoAtendidos(antes))}

\* a Priority entry served ahead of a Normal entry that arrived before it
C14_Witness ==
    /\ op.nome = "put_fila"
    /\ \E i \in SetAtendidos(fila) \ SetAtendidos(antes) :
           /\ Entrada(fila, i).tipo = "P"
           /\ \E j \in IdsNaoAtendidos(fila) :
                  j < i /\ Entrada(fila, j).tipo = "N"

\* ---- C16 ----------------------------------------------------------------
\* C16: name, service type and arrival time of an entry are the ones it was
\* enqueued with after every later request; recompute changes nothing but
\* the position of unserved entries and the order of the store.
C16_CamposFixos ==
    /\ \A i \in IdsDe(fila) \cap IdsDe(antes) :
          /\ Entrada(fila, i).nome = Entrada(antes, i).nome
          /\ Entrada(fila, i).tipo = Entrada(antes, i).tipo
          /\ Entrada(fila, i).chegada = Entrada(antes, i).chegada
    /\ \A s \in Intermediarios(fila) :
          LET r == ordenar_recalcular_posicoes(s)
          IN  /\ Len(r) = Len(s)
              /\ IdsDe(r) = IdsDe(s)
              /\ \A k \in 1..Len(s) :
                    LET e == s[k]
                        g == Entrada(r, e.id)
                    IN  IF e.atendido THEN g = e
                        ELSE g = [e EXCEPT !.posicao = g.posicao]

\* entries that outlive the removal of another one, a served one among them
C16_Witness ==
    /\ op.nome = "delete_fila_id"
    /\ op.status = 204
    /\ K(fila) >= 1
    /\ Len(Atendidos(fila)) >= 1

\* ---- C19 ----------------------------------------------------------------
\* C19: across a request the position of a waiting Priority entry never
\* grows; the position of a waiting Normal entry grows only in an enqueue of
\* a Priority entry, by exactly one; advance and removeByPosition never
\* raise a position.
C19_Monotonia ==
    \A i \in IdsNaoAtendidos(antes) \cap IdsNaoAtendidos(fila) :
        LET a == Entrada(antes, i)
            b == Entrada(fila, i)
        IN  /\ a.tipo = "P" => b.posicao <= a.posicao
            /\ b.posicao > a.posicao =>
                  /\ a.tipo = "N"
                  /\ op.nome = "post_fila"
                  /\ op.corpo[1].tipo = "P"
                  /\ b.posicao = a.posicao + 1
            /\ op.nome \in {"put_fila", "delete_fila_id"} =>
                  b.posicao <= a.posicao

\* a Priority entry enqueued while a Priority and a Normal entry wait
C19_Witness ==
    /\ op.nome = "post_fila"
    /\ op.corpo[1].tipo = "P"
    /\ \E i, j \in IdsNaoAtendidos(antes) :
           /\ Entrada(antes, i).tipo = "P"
           /\ Entrada(antes, j).tipo = "N"
           /\ Entrada(fila, j).posicao = Entrada(antes, j).posicao + 1
           /\ Entrada(fila, i).posicao = Entrada(antes, i).posicao

\* ---- C15 ----------------------------------------------------------------
IdsEmOrdem(f) == [i \in 1..Len(f) |-> f[i].id]
Inverso(s) == [i \in 1..Len(s) |-> s[Len(s) + 1 - i]]

\* the layout both readings of C15 share: the unserved entries first, at
\* index = position, then the served entries, each at position 0
Disposicao ==
    /\ fila = NaoAtendidos(fila) \o Atendidos(fila)
    /\ \A i \in 1..K(fila) : fila[i].posicao = i
    /\ \A i \in (K(fila) + 1)..Len(fila) : fila[i].posicao = Servido

\* C15 as stated: ... and the served entries appear in the order in which
\* they were served.
C15_Original ==
    /\ Disposicao
    /\ IdsEmOrdem(Atendidos(fila)) = hist.servidos

\* C15: after every completed request the store is the unserved entries in
\* increasing position order followed by the served entries, each served
\* entry at position 0, and the served entries appear most recently served
\* first (the reverse of the order in which they were served).
C15_Disposicao ==
    /\ Disposicao
    /\ IdsEmOrdem(Atendidos(fila)) = Inverso(hist.servidos)

\* two entries served one after the other, a third still waiting
C15_Witness ==
    /\ Len(hist.servidos) = 2
    /\ K(fila) = 1

\* ---- C18 ----------------------------------------------------------------
\* C18: an entry leaves the store only in a successful removeByPosition, and
\* it was unserved; the store holds (enqueues) - (successful deletions)
\* entries; the served entries are as many as the advances made on a
\* non-empty queue; every entry ever served is still in the store.
C18_Conservacao ==
    /\ \A i \in IdsDe(antes) \ IdsDe(fila) :
          /\ op.nome = "delete_fila_id"
          /\ op.status = 204
          /\ ~Entrada(antes, i).atendido
    /\ Len(fila) = (proxId - 1) - hist.removidos
    /\ Len(Atendidos(fila)) = hist.avancos
    /\ \A k \in 1..Len(hist.servidos) : hist.servidos[k] \in SetAtendidos(fila)

\* one entry served, another one deleted, a third one in the store
C18_Witness ==
    /\ hist.removidos = 1
    /\ hist.avancos = 1
    /\ proxId - 1 = 3
    /\ op.nome = "delete_fila_id"
    /\ op.status = 204

\* ---- C20 ----------------------------------------------------------------
\* n advances into a drain that started with K waiting entries: the entry
\* that held position p is served, by the p-th advance, if p <= n, and
\* waits at position p - n otherwise; the queue is empty exactly from the
\* K-th advance on
DrenoEmDia ==
    LET k0 == K(dreno.inicio)
        s0 == Len(Atendidos(dreno.inicio))
    IN  /\ K(fila) = (IF dreno.n >= k0 THEN 0 ELSE k0 - dreno.n)
        /\ K(fila) = 0 <=> dreno.n >= k0
        /\ \A p \in 1..k0 :
              LET e == NaPosicao(dreno.inicio, p)
              IN  IF p <= dreno.n
                  THEN /\ e.id \in SetAtendidos(fila)
                       /\ hist.servidos[s0 + p] = e.id
                  ELSE /\ e.id \in IdsNaoAtendidos(fila)
                       /\ Entrada(fila, e.id).posicao = p - dreno.n

TodosSairam ==
    \A i \in 1..(proxId - 1) : i \notin IdsNaoAtendidos(fila)

\* C20: once enqueues and deletes have stopped with K entries waiting,
\* exactly K advances empty the queue, the entry at position p being served
\* by the p-th of them; so if advance keeps being called every enqueued
\* entry is eventually served or deleted.
C20_Drenagem ==
    /\ [](dreno.ativo => DrenoEmDia)
    /\ dreno.ativo ~> TodosSairam

\* a drain of three waiting entries, completed by its third advance
C20_Witness ==
    /\ dreno.ativo
    /\ K(dreno.inicio) = 3
    /\ dreno.n = 3
    /\ K(fila) = 0

\* ---- C17 ----------------------------------------------------------------
Quieto == \A t \in Threads : pedidos[t].pc = "ocioso"
Faltando == {i \in 1..(proxId - 1) : \A k \in 1..Len(fila) : fila[k].id # i}
RespostaIncoerente == \E t \in Threads : ~pedidos[t].coerente
PosicoesErradas ==
    \/ Posicoes(fila) # 1..K(fila)
    \/ \E i, j \in 1..K(fila) :
           i # j /\ NaoAtendidos(fila)[i].posicao = NaoAtendidos(fila)[j].posicao

\* C17: enqueues that ran one after the other leave every enqueued entry in
\* the store, answered with its place, at positions 1..K; enqueues whose
\* statements interleaved can end with an entry missing from the store, a
\* response whose position is not the entry's place, or positions that are
\* not 1..K (the witness).
C17_SoIntercalado ==
    (Quieto /\ ~sobreposto) =>
        /\ Faltando = {}
        /\ ~RespostaIncoerente
        /\ ~PosicoesErradas

\* two requests, both over: one entry is gone from the store, the other is
\* in it twice, and a response reports a place its entry does not have
C17_Witness ==
    /\ Quieto
    /\ sobreposto
    /\ proxId = 3
    /\ Faltando # {}
    /\ RespostaIncoerente
    /\ PosicoesErradas

====
